---- MODULE Spec2Model ----
(***************************************************************************)
(* A model of the voice_form backend: environment-driven configuration     *)
(* (backend/app/config.py), the database startup gate                      *)
(* (backend/app/db/session.py), the two provider clients                   *)
(* (backend/app/services/whisper_client.py, openai_client.py) and the      *)
(* route handlers that call them (backend/app/api/transcribe.py,           *)
(* summarize.py), in the order backend/app/main.py imports them.           *)
(***************************************************************************)
EXTENDS Integers, Sequences, FiniteSets, TLC

VARIABLES
    environ,        \* os.environ of the process (after load_dotenv merged .env)
    pc,             \* position of the process in the import / startup sequence
    config,         \* app.config.config: "absent", "valid" or the exception raised
    config_errors,  \* the messages carried by the ConfigurationError
    config_warnings,\* the warnings the validator logged
    USE_MOCK,       \* whisper_client.USE_MOCK, captured when the module is imported
    OPENAI_API_KEY, \* whisper_client.OPENAI_API_KEY, captured at import
    db_up,          \* whether the database answers a probe right now
    max_retries,    \* wait_for_database's max_retries (argument or from config)
    retry_delay,    \* wait_for_database's retry_delay (argument or from config)
    attempt,        \* loop index of wait_for_database
    gate_log,       \* probes and sleeps wait_for_database performed, in order
    gate_result,    \* "pending", "returned" or "raised"
    SessionLocal,   \* whether the session factory has been created
    gate_calls,     \* number of times wait_for_database has been entered
    lifespan_log,   \* what wait_for_dependencies did, in order
    requests,       \* the in-flight and finished HTTP requests, by slot
    table,          \* the committed rows of the transcriptions table, in insert order
    id_seq,         \* last value the database drew for transcriptions.id
    creates,        \* the TranscriptionRepository.create calls, by session
    num_creates,    \* number of create calls started so far
    db_sessions,    \* the Sessions get_db made for requests, by request slot
    batch,          \* the POST /api/summarize/batch request
    detailed        \* the GET /api/health/detailed request

vars == <<environ, pc, config, config_errors, config_warnings, USE_MOCK,
          OPENAI_API_KEY, db_up, max_retries, retry_delay, attempt, gate_log, gate_result, SessionLocal,
          gate_calls, lifespan_log, requests, table, id_seq, creates, num_creates,
          db_sessions, batch, detailed>>

\* The state of the transcriptions table and of the repository calls.
RepoVars == <<table, id_seq, creates, num_creates>>

\* The state of the handlers that are followed on their own.
EndpointVars == <<db_sessions, batch, detailed>>

-----------------------------------------------------------------------------
(* Bounds of the model.                                                    *)

\* Largest DATABASE_CONNECTION_RETRIES value written in the environment.
MaxEnvRetries == 3
\* Number of request slots (requests in flight at the same time).
MaxRequests == 1
\* Number of database sessions that run TranscriptionRepository.create.
MaxSessions == 2
\* Number of create calls made in one run.
MaxCreates == 3
\* Largest number of items in a batch.
MaxBatch == 2

-----------------------------------------------------------------------------
(* The process environment.                                                *)

\* os.getenv(k) of a variable that is not set (Python's None).
None == "<None>"

EnvKeys == {"DATABASE_URL", "OPENAI_API_KEY", "USE_MOCK_TRANSCRIPTION",
            "USE_MOCK_SUMMARIZATION", "ENVIRONMENT", "MAX_AUDIO_FILE_SIZE_MB",
            "MAX_AUDIO_DURATION_SECONDS", "RATE_LIMIT_PER_MINUTE",
            "DATABASE_CONNECTION_RETRIES", "DATABASE_RETRY_DELAY_SECONDS",
            "REQUEST_TIMEOUT_SECONDS"}

\* os.getenv(k, default)
getenv(e, k, default) == IF e[k] = None THEN default ELSE e[k]

\* str.lower() on the flag spellings that occur in the environment.
lower(s) ==
    CASE s = "True"  -> "true"
      [] s = "TRUE"  -> "true"
      [] s = "False" -> "false"
      [] OTHER       -> s

\* The integers whose decimal spelling occurs in the environment or as a default.
DecimalInts == (-1 .. MaxEnvRetries) \cup {5, 25, 30, 60, 300}

\* int(s) for a decimal string: the integer whose decimal spelling is s.
int(s) == CHOOSE n \in DecimalInts : ToString(n) = s

PLACEHOLDER_KEY == "your_openai_api_key_here"

-----------------------------------------------------------------------------
(* Config properties (config.py 35-102): each reads the environment anew.  *)

database_url(e) ==
    getenv(e, "DATABASE_URL", "postgresql://postgres:postgres@db:5432/voiceform")
database_connection_retries(e) == int(getenv(e, "DATABASE_CONNECTION_RETRIES", "5"))
database_retry_delay_seconds(e) == int(getenv(e, "DATABASE_RETRY_DELAY_SECONDS", "2"))
openai_api_key(e) == e["OPENAI_API_KEY"]
use_mock_transcription(e) == lower(getenv(e, "USE_MOCK_TRANSCRIPTION", "False")) = "true"
use_mock_summarization(e) == lower(getenv(e, "USE_MOCK_SUMMARIZATION", "False")) = "true"
environment(e) == getenv(e, "ENVIRONMENT", "development")
max_audio_file_size_mb(e) == int(getenv(e, "MAX_AUDIO_FILE_SIZE_MB", "25"))
max_audio_duration_seconds(e) == int(getenv(e, "MAX_AUDIO_DURATION_SECONDS", "300"))
request_timeout_seconds(e) == int(getenv(e, "REQUEST_TIMEOUT_SECONDS", "30"))
rate_limit_per_minute(e) == int(getenv(e, "RATE_LIMIT_PER_MINUTE", "60"))

\* Python truthiness of an Optional[str]: `not s` holds for None and "".
falsy(s) == s = None \/ s = ""

-----------------------------------------------------------------------------
(* Config._validate_configuration (config.py 104-163).                     *)

\* A faulty variant: the fallback forgets the transcription variable.
force_mock_mode_summarization_only(e) ==
    [e EXCEPT !["USE_MOCK_SUMMARIZATION"] = "true"]

\* Both mock variables forced to "true" (config.py 123-124, 130-131).
force_mock_mode(e) ==
    [e EXCEPT !["USE_MOCK_TRANSCRIPTION"] = "true",
              !["USE_MOCK_SUMMARIZATION"] = "true"]

\* A faulty variant: the production branch treats the placeholder as a real key.
openai_key_check_no_placeholder(e) ==
    IF ~use_mock_transcription(e) \/ ~use_mock_summarization(e)
    THEN IF falsy(openai_api_key(e))
         THEN IF environment(e) = "production"
              THEN [errors |-> <<"OPENAI_API_KEY is required in production when mock mode is disabled">>,
                    warnings |-> <<>>, environ |-> e]
              ELSE [errors |-> <<>>,
                    warnings |-> <<"OPENAI_API_KEY is missing - falling back to mock mode">>,
                    environ |-> force_mock_mode(e)]
         ELSE IF openai_api_key(e) = PLACEHOLDER_KEY /\ environment(e) # "production"
              THEN [errors |-> <<>>,
                    warnings |-> <<"Using placeholder API key - falling back to mock mode">>,
                    environ |-> force_mock_mode(e)]
              ELSE [errors |-> <<>>, warnings |-> <<>>, environ |-> e]
    ELSE [errors |-> <<>>, warnings |-> <<>>, environ |-> e]

\* A faulty variant: the fallback forces only the transcription flag.
openai_key_check_half_fallback(e) ==
    LET half == [e EXCEPT !["USE_MOCK_TRANSCRIPTION"] = "true"] IN
    IF ~use_mock_transcription(e) \/ ~use_mock_summarization(e)
    THEN IF falsy(openai_api_key(e))
         THEN IF environment(e) = "production"
              THEN [errors |-> <<"OPENAI_API_KEY is required in production when mock mode is disabled">>,
                    warnings |-> <<>>, environ |-> e]
              ELSE [errors |-> <<>>,
                    warnings |-> <<"OPENAI_API_KEY is missing - falling back to mock mode">>,
                    environ |-> half]
         ELSE IF openai_api_key(e) = PLACEHOLDER_KEY
              THEN IF environment(e) = "production"
                   THEN [errors |-> <<"Please set a real OPENAI_API_KEY in production">>,
                         warnings |-> <<>>, environ |-> e]
                   ELSE [errors |-> <<>>,
                         warnings |-> <<"Using placeholder API key - falling back to mock mode">>,
                         environ |-> half]
              ELSE [errors |-> <<>>, warnings |-> <<>>, environ |-> e]
    ELSE [errors |-> <<>>, warnings |-> <<>>, environ |-> e]

\* The OpenAI key check (config.py 113-131): the errors and warnings it appends
\* and the environment it leaves.
openai_key_check(e) ==
    IF ~use_mock_transcription(e) \/ ~use_mock_summarization(e)
    THEN IF falsy(openai_api_key(e))
         THEN IF environment(e) = "production"
              THEN [errors |-> <<"OPENAI_API_KEY is required in production when mock mode is disabled">>,
                    warnings |-> <<>>, environ |-> e]
              ELSE [errors |-> <<>>,
                    warnings |-> <<"OPENAI_API_KEY is missing - falling back to mock mode">>,
                    environ |-> force_mock_mode(e)]
         ELSE IF openai_api_key(e) = PLACEHOLDER_KEY
              THEN IF environment(e) = "production"
                   THEN [errors |-> <<"Please set a real OPENAI_API_KEY in production">>,
                         warnings |-> <<>>, environ |-> e]
                   ELSE [errors |-> <<>>,
                         warnings |-> <<"Using placeholder API key - falling back to mock mode">>,
                         environ |-> force_mock_mode(e)]
              ELSE [errors |-> <<>>, warnings |-> <<>>, environ |-> e]
    ELSE [errors |-> <<>>, warnings |-> <<>>, environ |-> e]

\* errors.append(msg) if cond (config.py 110-111, 134-149).
append_if(cond, msg) == IF cond THEN <<msg>> ELSE <<>>

\* A faulty variant: validation stops at the first violated check.
_validate_configuration_first_error_only(e) ==
    LET k  == openai_key_check(e)
        e2 == k.environ
        all == append_if(database_url(e) = "", "DATABASE_URL is required")
               \o k.errors
               \o append_if(max_audio_file_size_mb(e2) <= 0, "MAX_AUDIO_FILE_SIZE_MB must be positive")
               \o append_if(max_audio_duration_seconds(e2) <= 0, "MAX_AUDIO_DURATION_SECONDS must be positive")
               \o append_if(rate_limit_per_minute(e2) <= 0, "RATE_LIMIT_PER_MINUTE must be positive")
               \o append_if(database_connection_retries(e2) <= 0, "DATABASE_CONNECTION_RETRIES must be positive")
               \o append_if(database_retry_delay_seconds(e2) <= 0, "DATABASE_RETRY_DELAY_SECONDS must be positive")
    IN  [errors |-> IF all = <<>> THEN <<>> ELSE <<Head(all)>>,
         warnings |-> k.warnings,
         environ  |-> e2]

\* The whole validator: the error list in the order the checks run, the
\* warnings, and the environment after the call.
_validate_configuration(e) ==
    LET k  == openai_key_check(e)
        e2 == k.environ
    IN  [errors |->
             append_if(database_url(e) = "", "DATABASE_URL is required")
             \o k.errors
             \o append_if(max_audio_file_size_mb(e2) <= 0, "MAX_AUDIO_FILE_SIZE_MB must be positive")
             \o append_if(max_audio_duration_seconds(e2) <= 0, "MAX_AUDIO_DURATION_SECONDS must be positive")
             \o append_if(rate_limit_per_minute(e2) <= 0, "RATE_LIMIT_PER_MINUTE must be positive")
             \o append_if(database_connection_retries(e2) <= 0, "DATABASE_CONNECTION_RETRIES must be positive")
             \o append_if(database_retry_delay_seconds(e2) <= 0, "DATABASE_RETRY_DELAY_SECONDS must be positive"),
         warnings |-> k.warnings,
         environ  |-> e2]

-----------------------------------------------------------------------------
(* Module import and startup, in the order main.py triggers it:            *)
(* main.py:19 -> routes.py:10 -> transcribe.py:4 (whisper_client), then    *)
(* transcribe.py:5 -> session.py:15 (config), then the rest of session.py. *)

\* whisper_client.py 10-14: the module globals are read from the environment
\* once, when the module is imported.
ImportWhisperClient ==
    /\ pc = "import_whisper_client"
    /\ OPENAI_API_KEY' = environ["OPENAI_API_KEY"]
    /\ USE_MOCK' = (lower(getenv(environ, "USE_MOCK_TRANSCRIPTION", "False")) = "true")
    /\ pc' = "import_config"
    /\ UNCHANGED <<environ, config, config_errors, config_warnings, db_up,
                   max_retries, retry_delay, attempt, gate_log, gate_result,
                   SessionLocal, requests>>
    /\ UNCHANGED <<gate_calls, lifespan_log>>
    /\ UNCHANGED <<RepoVars, EndpointVars>>

\* A faulty variant: the ConfigurationError is logged and the import goes on.
ImportConfig_error_logged ==
    /\ pc = "import_config"
    /\ LET v == _validate_configuration(environ) IN
         /\ environ' = v.environ
         /\ config_warnings' = v.warnings
         /\ config_errors' = v.errors
         /\ config' = IF v.errors # <<>> THEN "ConfigurationError" ELSE "valid"
         /\ pc' = "create_engine"
    /\ UNCHANGED <<USE_MOCK, OPENAI_API_KEY, db_up, max_retries, retry_delay,
                   attempt, gate_log, gate_result, SessionLocal, requests>>
    /\ UNCHANGED <<gate_calls, lifespan_log>>
    /\ UNCHANGED <<RepoVars, EndpointVars>>

\* config.py 193 (config = Config()) -> __init__ -> _validate_configuration.
\* A ConfigurationError propagates out of the import and ends the process.
ImportConfig ==
    /\ pc = "import_config"
    /\ LET v == _validate_configuration(environ) IN
         /\ environ' = v.environ
         /\ config_warnings' = v.warnings
         /\ config_errors' = v.errors
         /\ IF v.errors # <<>>
            THEN config' = "ConfigurationError" /\ pc' = "crashed"
            ELSE config' = "valid" /\ pc' = "create_engine"
    /\ UNCHANGED <<USE_MOCK, OPENAI_API_KEY, db_up, max_retries, retry_delay,
                   attempt, gate_log, gate_result, SessionLocal, requests>>
    /\ UNCHANGED <<gate_calls, lifespan_log>>
    /\ UNCHANGED <<RepoVars, EndpointVars>>

-----------------------------------------------------------------------------
(* The database startup gate (session.py 36-84).                           *)

probe(ok) == [op |-> "probe", ok |-> ok, seconds |-> 0]
sleep(seconds) == [op |-> "sleep", ok |-> FALSE, seconds |-> seconds]

\* A faulty variant: the loop goes on after a successful probe.
after_probe_success_continue(i, n) == IF i < n - 1 THEN "continue" ELSE "return"

\* session.py 58-61: a successful probe returns at once.
after_probe_success(i, n) == "return"

\* A faulty variant: off by one, the last failure sleeps instead of raising.
after_probe_failure_off_by_one(i, n) == IF i < n THEN "sleep" ELSE "raise"

\* session.py 63-70: a failed probe sleeps unless it was the last attempt.
after_probe_failure(i, n) == IF i < n - 1 THEN "sleep" ELSE "raise"

\* session.py 73, 77 and 48-53: the engine is created and wait_for_database is
\* entered with both arguments None, so they are read from the configuration.
EnterGate ==
    /\ pc = "create_engine"
    /\ max_retries' = database_connection_retries(environ)
    /\ retry_delay' = database_retry_delay_seconds(environ)
    /\ attempt' = 0
    /\ gate_calls' = gate_calls + 1
    /\ pc' = "wait_for_database"
    /\ UNCHANGED lifespan_log
    /\ UNCHANGED <<environ, config, config_errors, config_warnings, USE_MOCK,
                   OPENAI_API_KEY, db_up, gate_log, gate_result, SessionLocal,
                   requests>>
    /\ UNCHANGED <<RepoVars, EndpointVars>>

\* Values a caller passes for max_retries and retry_delay.
RetryArgs == -1 .. MaxEnvRetries
DelayArgs == {0, 1, 2}

\* session.py 36 and 48-53: wait_for_database called with both arguments
\* given, so neither is read from the configuration.
CallWaitForDatabase ==
    /\ pc = "call_wait_for_database"
    /\ \E n \in RetryArgs, d \in DelayArgs :
         /\ max_retries' = n
         /\ retry_delay' = d
    /\ attempt' = 0
    /\ gate_calls' = gate_calls + 1
    /\ pc' = "wait_for_database"
    /\ UNCHANGED lifespan_log
    /\ UNCHANGED <<environ, config, config_errors, config_warnings, USE_MOCK,
                   OPENAI_API_KEY, db_up, gate_log, gate_result, SessionLocal,
                   requests>>
    /\ UNCHANGED <<RepoVars, EndpointVars>>

\* One evaluation of `for attempt in range(max_retries)` and, when the range
\* is not exhausted, the probe of that iteration (session.py 55-70).  A raise
\* is caught by the module-level except (session.py 76-81), which only logs.
GateProbe ==
    /\ pc = "wait_for_database"
    /\ IF attempt < max_retries
       THEN LET act == IF db_up THEN after_probe_success(attempt, max_retries)
                       ELSE after_probe_failure(attempt, max_retries)
            IN  /\ gate_log' = Append(gate_log, probe(db_up))
                /\ attempt' = IF act = "continue" THEN attempt + 1 ELSE attempt
                /\ pc' = CASE act = "sleep"    -> "gate_sleep"
                           [] act = "continue" -> "wait_for_database"
                           [] OTHER            -> "session_factory"
                /\ gate_result' = CASE act = "return" -> "returned"
                                    [] act = "raise"  -> "raised"
                                    [] OTHER          -> gate_result
       ELSE /\ gate_result' = "returned"
            /\ pc' = "session_factory"
            /\ UNCHANGED <<gate_log, attempt>>
    /\ UNCHANGED <<environ, config, config_errors, config_warnings, USE_MOCK,
                   OPENAI_API_KEY, db_up, max_retries, retry_delay,
                   SessionLocal, requests>>
    /\ UNCHANGED <<gate_calls, lifespan_log>>
    /\ UNCHANGED <<RepoVars, EndpointVars>>

\* session.py 67: time.sleep(retry_delay), then the next iteration.
GateSleep ==
    /\ pc = "gate_sleep"
    /\ gate_log' = Append(gate_log, sleep(retry_delay))
    /\ attempt' = attempt + 1
    /\ pc' = "wait_for_database"
    /\ UNCHANGED <<environ, config, config_errors, config_warnings, USE_MOCK,
                   OPENAI_API_KEY, db_up, max_retries, retry_delay, gate_result,
                   SessionLocal, requests>>
    /\ UNCHANGED <<gate_calls, lifespan_log>>
    /\ UNCHANGED <<RepoVars, EndpointVars>>

\* session.py 84: SessionLocal = sessionmaker(...), whatever the gate did.
CreateSessionLocal ==
    /\ pc = "session_factory"
    /\ SessionLocal' = TRUE
    /\ pc' = "lifespan"
    /\ UNCHANGED <<environ, config, config_errors, config_warnings, USE_MOCK,
                   OPENAI_API_KEY, db_up, max_retries, retry_delay, attempt,
                   gate_log, gate_result, requests>>
    /\ UNCHANGED <<gate_calls, lifespan_log>>
    /\ UNCHANGED <<RepoVars, EndpointVars>>

\* A faulty variant: a failed probe is tried again.
after_lifespan_probe_retry(ok) == IF ok THEN "continue" ELSE "probe"

\* main.py 42-49: whether the probe succeeds or raises, the outcome is logged
\* and wait_for_dependencies goes on.
after_lifespan_probe(ok) == "continue"

\* main.py 52-53: the provider is contacted when a mock flag is false and a
\* key is set.
openai_check_due(e) ==
    (~use_mock_transcription(e) \/ ~use_mock_summarization(e)) /\ ~falsy(openai_api_key(e))

\* main.py 75-117: the lifespan startup runs wait_for_dependencies (32-72),
\* which probes the database and, when due, the provider, and only logs what
\* it finds; every exception is caught, and the application starts serving.
Lifespan ==
    /\ pc = "lifespan"
    /\ LET next == after_lifespan_probe(db_up) IN
         /\ lifespan_log' = lifespan_log \o <<"probe">>
                \o (IF next = "continue" /\ openai_check_due(environ)
                    THEN <<"openai_check">> ELSE <<>>)
         /\ pc' = IF next = "continue" THEN "serving" ELSE "lifespan"
    /\ UNCHANGED gate_calls
    /\ UNCHANGED <<environ, config, config_errors, config_warnings, USE_MOCK,
                   OPENAI_API_KEY, db_up, max_retries, retry_delay, attempt,
                   gate_log, gate_result, SessionLocal, requests>>
    /\ UNCHANGED <<RepoVars, EndpointVars>>

\* The database becomes reachable or unreachable (outside the program).
DbChange ==
    /\ pc # "crashed"
    /\ db_up' = ~db_up
    /\ UNCHANGED <<environ, pc, config, config_errors, config_warnings, USE_MOCK,
                   OPENAI_API_KEY, max_retries, retry_delay, attempt, gate_log,
                   gate_result, SessionLocal, requests>>
    /\ UNCHANGED <<gate_calls, lifespan_log>>
    /\ UNCHANGED <<RepoVars, EndpointVars>>

\* test_api.py 24 and 46: a mock flag is set to "True" in os.environ after the
\* application has been imported.
SetEnviron ==
    /\ pc = "serving"
    /\ \E k \in {"USE_MOCK_TRANSCRIPTION", "USE_MOCK_SUMMARIZATION"} :
         /\ environ[k] # "True"
         /\ environ' = [environ EXCEPT ![k] = "True"]
    /\ UNCHANGED <<pc, config, config_errors, config_warnings, USE_MOCK,
                   OPENAI_API_KEY, db_up, max_retries, retry_delay, attempt,
                   gate_log, gate_result, SessionLocal, requests>>
    /\ UNCHANGED <<gate_calls, lifespan_log>>
    /\ UNCHANGED <<RepoVars, EndpointVars>>

-----------------------------------------------------------------------------
(* Values exchanged with the two providers.                                *)

MOCK_TRANSCRIPTION == "This is a mock transcription for development purposes."
MOCK_SUMMARY == "This is a mock summary for development purposes."
MOCK_ANALYSIS ==
    [sentiment |-> "neutral",
     key_points |-> <<"Mock point 1", "Mock point 2">>,
     confidence |-> "0.85"]

\* Python's {} (an analysis with no fields).
EmptyDict == [k \in {} |-> None]

LikertAnalysis ==
    [rating |-> 2, sentiment |-> "negative",
     key_factors |-> <<"noise">>, confidence |-> "0.9"]

\* The JSON documents a chat completion may carry in its content field.
ContentValues ==
    {[c |-> "not_json"],
     [c |-> "array"],
     [c |-> "object", fields |-> [summary |-> "Slept badly", analysis |-> LikertAnalysis]],
     [c |-> "object", fields |-> [analysis |-> LikertAnalysis]],
     [c |-> "object", fields |-> [summary |-> "Slept badly"]],
     [c |-> "object", fields |-> [summary |-> None, analysis |-> LikertAnalysis]]}

\* What one outbound call to the chat completions endpoint can end in.
SummarizeReplies ==
    {[t |-> "timeout"], [t |-> "connect_error"]}
    \cup {[t |-> "response", status |-> 200, body |-> [b |-> "not_json"]],
          [t |-> "response", status |-> 200, body |-> [b |-> "json_object"]],
          [t |-> "response", status |-> 401,
           body |-> [b |-> "error", message |-> "Incorrect API key provided"]],
          [t |-> "response", status |-> 429, body |-> [b |-> "json_object"]],
          [t |-> "response", status |-> 500, body |-> [b |-> "not_json"]]}
    \cup {[t |-> "response", status |-> 200, body |-> [b |-> "chat", content |-> c]] :
            c \in ContentValues}

\* What one outbound call to the transcription endpoint can end in.
TranscribeReplies ==
    {[t |-> "timeout"], [t |-> "connect_error"],
     [t |-> "response", status |-> 200, body |-> [b |-> "text", text |-> " hello world\n"]],
     [t |-> "response", status |-> 200, body |-> [b |-> "text", text |-> ""]],
     [t |-> "response", status |-> 401,
      body |-> [b |-> "error", message |-> "Incorrect API key provided"]],
     [t |-> "response", status |-> 429, body |-> [b |-> "json_object"]],
     [t |-> "response", status |-> 500, body |-> [b |-> "not_json"]]}

\* str.strip() on the texts the transcription provider returns.
strip(s) == CASE s = " hello world\n" -> "hello world" [] OTHER -> s

\* dict.get(k, default)
dict_get(d, k, default) == IF k \in DOMAIN d THEN d[k] ELSE default

\* The outcome of a client call: an exception (raised # "none") or a value.
Raise(type, msg) ==
    [raised |-> type, message |-> msg, text |-> None, summary |-> None,
     analysis |-> EmptyDict]
ReturnText(s) ==
    [raised |-> "none", message |-> "", text |-> s, summary |-> None,
     analysis |-> EmptyDict]
ReturnSummary(s, a) ==
    [raised |-> "none", message |-> "", text |-> None, summary |-> s,
     analysis |-> a]

\* response.json().get("error", {}).get("message", "Unknown error")
\* (openai_client.py 114, whisper_client.py 78); "" when .json() raises.
error_detail(body) ==
    CASE body.b = "error"       -> body.message
      [] body.b = "json_object" -> "Unknown error"
      [] OTHER                  -> ""

-----------------------------------------------------------------------------
(* summarize_text (openai_client.py 22-126).                               *)

\* A faulty variant: a missing analysis is filled with a neutral analysis
\* instead of the empty mapping.
extract_result_neutral_default(result) ==
    LET summary == dict_get(result, "summary", "")
        analysis == dict_get(result, "analysis", [sentiment |-> "neutral"])
    IN  IF summary = None
        THEN Raise("TypeError", "object of type 'NoneType' has no len()")
        ELSE ReturnSummary(summary, analysis)

\* openai_client.py 106-111: the two fields are read from the parsed content
\* with their defaults; len(summary) in the log line raises for a null summary.
extract_result(result) ==
    LET summary == dict_get(result, "summary", "")
        analysis == dict_get(result, "analysis", EmptyDict)
    IN  IF summary = None
        THEN Raise("TypeError", "object of type 'NoneType' has no len()")
        ELSE ReturnSummary(summary, analysis)

\* The body of the try block, openai_client.py 87-116: what it returns or
\* raises for a reply.
summarize_try(o) ==
    CASE o.t = "timeout" -> Raise("httpx.TimeoutException", "timed out")
      [] o.t = "connect_error" -> Raise("httpx.ConnectError", "All connection attempts failed")
      [] OTHER ->
         IF o.body.b = "not_json"
         THEN Raise("json.JSONDecodeError", "Expecting value")
         ELSE IF o.status = 200
              THEN IF o.body.b # "chat"
                   THEN Raise("KeyError", "'choices'")
                   ELSE LET c == o.body.content IN
                        CASE c.c = "not_json" -> Raise("json.JSONDecodeError", "Expecting value")
                          [] c.c = "array" -> Raise("AttributeError", "'list' object has no attribute 'get'")
                          [] OTHER ->
                             extract_result(c.fields)
              ELSE Raise("OpenAIError", "API request failed: " \o error_detail(o.body))

\* A faulty variant: the catch-all clause is missing.
summarize_except_no_catch_all(r) ==
    CASE r.raised = "none" -> r
      [] r.raised = "httpx.TimeoutException" -> Raise("OpenAIError", "Request timed out")
      [] r.raised = "json.JSONDecodeError" -> Raise("OpenAIError", "Invalid response format from API")
      [] OTHER -> r

\* The except clauses, openai_client.py 118-126.
summarize_except(r) ==
    CASE r.raised = "none" -> r
      [] r.raised = "httpx.TimeoutException" -> Raise("OpenAIError", "Request timed out")
      [] r.raised = "json.JSONDecodeError" -> Raise("OpenAIError", "Invalid response format from API")
      [] OTHER -> Raise("OpenAIError", "Summarization failed: " \o r.message)

\* A faulty variant: a timeout is answered by sending the request again.
summarize_next_retry_on_timeout(o) == IF o.t = "timeout" THEN "post" ELSE "done"

\* openai_client.py 86-126: no loop surrounds the call, every reply ends it.
summarize_next(o) == "done"

\* _build_system_prompt (openai_client.py 128-175): the parts of the prompt.
_build_system_prompt(question_type, language) ==
    <<"base">>
    \o (CASE question_type = "yes_no" -> <<"yes_no">>
          [] question_type = "likert" -> <<"likert">>
          [] OTHER -> <<"open">>)
    \o (IF ~falsy(language) /\ lower(language) = "de" THEN <<"german">> ELSE <<>>)

-----------------------------------------------------------------------------
(* transcribe_audio (whisper_client.py 18-89).                             *)

\* whisper_client.py 63-80 with the re-raising except of 82-84.
transcribe_try(o) ==
    CASE o.t = "timeout" -> Raise("httpx.TimeoutException", "timed out")
      [] o.t = "connect_error" -> Raise("httpx.ConnectError", "All connection attempts failed")
      [] OTHER ->
         IF o.status = 200
         THEN ReturnText(strip(o.body.text))
         ELSE IF o.body.b = "not_json"
              THEN Raise("json.JSONDecodeError", "Expecting value")
              ELSE Raise("Exception", "Transcription failed: " \o error_detail(o.body))

\* whisper_client.py 62-84: no loop surrounds the call, every reply ends it.
transcribe_next(o) == "done"

-----------------------------------------------------------------------------
(* Requests and the route handlers (api/transcribe.py, api/summarize.py).  *)

Pending == Raise("pending", "")

NoBody == [empty |-> TRUE]

\* json.loads(content) has not produced an object (openai_client.py 104).
NotParsed == [c |-> "none"]

Idle ==
    [kind |-> "idle", pc |-> "idle", content_type |-> None, audio |-> None,
     text |-> None, question |-> None, question_type |-> None,
     language |-> None, session_id |-> None,
     mock_at_call |-> "n/a",
     posts |-> 0, prompt |-> <<>>, temp_file |-> "none", handle |-> "none",
     db |-> "none", parsed |-> NotParsed, result |-> Pending, status |-> 0,
     body |-> NoBody]

\* The uploads the model posts to /api/transcribe.
TranscribeInputs ==
    {[content_type |-> "audio/wav", audio |-> "dummy audio content",
      language |-> None, session_id |-> "test-session"],
     [content_type |-> "audio/wav", audio |-> "",
      language |-> "de", session_id |-> None],
     [content_type |-> "text/plain", audio |-> "dummy audio content",
      language |-> None, session_id |-> None]}

\* The bodies the model posts to /api/summarize.
SummarizeInputs ==
    {[text |-> "terrible sleep", question |-> "How did you sleep?",
      question_type |-> "likert", language |-> None, session_id |-> None],
     [text |-> "I slept poorly", question |-> "How was your sleep quality?",
      question_type |-> "open", language |-> "en", session_id |-> "test-session"],
     [text |-> "", question |-> "Did you sleep?",
      question_type |-> "yes_no", language |-> "de", session_id |-> None]}

\* file.content_type.startswith("audio/") on the content types posted.
is_audio(content_type) == content_type \in {"audio/wav", "audio/webm"}

\* transcribe.py 43-50: the handler's answer to what transcribe_audio did.
transcribe_response(r, session_id) ==
    IF r.raised = "none"
    THEN [status |-> 200,
          body |-> [session_id |-> IF falsy(session_id) THEN "uuid4" ELSE session_id,
                    transcription |-> r.text, success |-> TRUE]]
    ELSE [status |-> 500, body |-> [detail |-> "Transcription failed: " \o r.message]]

\* summarize.py 49-54: the handler's answer to what summarize_text did.
summarize_response(r, session_id) ==
    IF r.raised = "none"
    THEN [status |-> 200,
          body |-> [summary |-> r.summary, analysis |-> r.analysis,
                    question_id |-> session_id]]
    ELSE [status |-> 500, body |-> [detail |-> "Summarization failed: " \o r.message]]

\* A faulty variant: the canned analysis follows the question type.
mock_summarization_by_type(text, question, question_type, language) ==
    IF question_type = "yes_no"
    THEN ReturnSummary(MOCK_SUMMARY, [answer |-> "unclear", confidence |-> "0.85"])
    ELSE ReturnSummary(MOCK_SUMMARY, MOCK_ANALYSIS)

\* openai_client.py 47-54: the canned result of the mock branch.
mock_summarization(text, question, question_type, language) ==
    ReturnSummary(MOCK_SUMMARY, MOCK_ANALYSIS)

\* The handler returns or raises HTTPException, and get_db closes the session
\* it handed to the handler (session.py 98-99).
Finish(q, r, resp) ==
    [q EXCEPT !.pc = "done", !.result = r, !.status = resp.status,
              !.body = resp.body, !.db = "closed"]

Flag(b) == IF b THEN "yes" ELSE "no"

\* session.py 91: get_db hands the handler a new Session; SessionLocal() opens
\* no connection, one is acquired only when a statement is executed.
get_db == "session"

\* health.py 26-29: the body of the basic health check.
basic_health_check == [status |-> "healthy", service |-> "voiceform-api"]

\* main.py 167-179: the body of the root endpoint.
root(e) ==
    [message |-> "Welcome to VoiceForm AI", api_url |-> "/api",
     health_check |-> "/api/health", detailed_health |-> "/api/health/detailed",
     documentation |-> "/docs", version |-> "0.1.2",
     environment |-> environment(e), container_mode |-> TRUE]

ProcessVars ==
    <<environ, pc, config, config_errors, config_warnings, USE_MOCK,
      OPENAI_API_KEY, db_up, max_retries, retry_delay, attempt, gate_log,
      gate_result, SessionLocal, gate_calls, lifespan_log>>

\* A new request takes the first slot that holds no request in flight.
FirstFreeSlot(i) ==
    /\ requests[i].pc \in {"idle", "done"}
    /\ \A j \in 1 .. i - 1 : requests[j].pc \notin {"idle", "done"}

\* A client posts an audio upload to /api/transcribe.
AcceptTranscribe ==
    /\ pc = "serving"
    /\ \E i \in 1 .. MaxRequests, in \in TranscribeInputs :
         /\ FirstFreeSlot(i)
         /\ requests' = [requests EXCEPT ![i] =
              [Idle EXCEPT !.kind = "transcribe", !.pc = "accepted",
                           !.db = get_db,
                           !.content_type = in.content_type,
                           !.audio = in.audio, !.language = in.language,
                           !.session_id = in.session_id]]
    /\ UNCHANGED ProcessVars
    /\ UNCHANGED <<RepoVars, EndpointVars>>

\* A client posts a body to /api/summarize.
AcceptSummarize ==
    /\ pc = "serving"
    /\ \E i \in 1 .. MaxRequests, in \in SummarizeInputs :
         /\ FirstFreeSlot(i)
         /\ requests' = [requests EXCEPT ![i] =
              [Idle EXCEPT !.kind = "summarize", !.pc = "accepted",
                           !.db = get_db,
                           !.text = in.text, !.question = in.question,
                           !.question_type = in.question_type,
                           !.language = in.language,
                           !.session_id = in.session_id]]
    /\ UNCHANGED ProcessVars
    /\ UNCHANGED <<RepoVars, EndpointVars>>

\* GET /api/health (routes.py 17, health.py 26-29): the handler has no
\* dependency and no await; it answers in one step.
Health ==
    /\ pc = "serving"
    /\ \E i \in 1 .. MaxRequests :
         /\ FirstFreeSlot(i)
         /\ requests' = [requests EXCEPT ![i] =
              [Idle EXCEPT !.kind = "health", !.pc = "done", !.status = 200,
                           !.body = basic_health_check]]
    /\ UNCHANGED ProcessVars
    /\ UNCHANGED <<RepoVars, EndpointVars>>

\* GET / (main.py 167-179).
Root ==
    /\ pc = "serving"
    /\ \E i \in 1 .. MaxRequests :
         /\ FirstFreeSlot(i)
         /\ requests' = [requests EXCEPT ![i] =
              [Idle EXCEPT !.kind = "root", !.pc = "done", !.status = 200,
                           !.body = root(environ)]]
    /\ UNCHANGED ProcessVars
    /\ UNCHANGED <<RepoVars, EndpointVars>>

\* transcribe_audio_file up to the outbound call: transcribe.py 26-38 and
\* whisper_client.py 30-60.  mock_at_call records what the Configuration says
\* about transcription mock mode at the moment of the call.  The audio is
\* staged in a NamedTemporaryFile(delete=False); a failing write leaves the
\* with block before the try/finally is entered.  The staged file is then
\* opened for the upload.
TranscribeCall ==
    /\ \E i \in 1 .. MaxRequests, write_ok \in BOOLEAN :
         LET q == requests[i] IN
         /\ q.kind = "transcribe" /\ q.pc = "accepted"
         /\ requests' = [requests EXCEPT ![i] =
              IF ~is_audio(q.content_type)
              THEN [q EXCEPT !.pc = "done", !.status = 400, !.db = "closed",
                             !.body = [detail |-> "File must be an audio file"]]
              ELSE LET c == [q EXCEPT !.mock_at_call = Flag(use_mock_transcription(environ))]
                   IN  IF USE_MOCK
                       THEN Finish(c, ReturnText(MOCK_TRANSCRIPTION),
                                   transcribe_response(ReturnText(MOCK_TRANSCRIPTION), q.session_id))
                       ELSE IF falsy(OPENAI_API_KEY)
                            THEN LET r == Raise("ValueError", "OpenAI API key is required for transcription")
                                 IN  Finish(c, r, transcribe_response(r, q.session_id))
                            ELSE IF ~write_ok
                                 THEN LET r == Raise("OSError", "[Errno 28] No space left on device")
                                      IN  Finish([c EXCEPT !.temp_file = "exists"], r,
                                                 transcribe_response(r, q.session_id))
                                 ELSE [c EXCEPT !.pc = "post", !.temp_file = "exists",
                                                !.handle = "open"]]
    /\ UNCHANGED ProcessVars
    /\ UNCHANGED <<RepoVars, EndpointVars>>

\* summarize_response up to the outbound call: summarize.py 38-45 and
\* openai_client.py 46-84.
SummarizeCall ==
    /\ \E i \in 1 .. MaxRequests :
         LET q == requests[i] IN
         /\ q.kind = "summarize" /\ q.pc = "accepted"
         /\ requests' = [requests EXCEPT ![i] =
              LET c == [q EXCEPT !.mock_at_call = Flag(use_mock_summarization(environ))]
              IN  IF use_mock_summarization(environ)
                  THEN LET r == mock_summarization(q.text, q.question, q.question_type, q.language)
                       IN  Finish(c, r, summarize_response(r, q.session_id))
                  ELSE IF falsy(openai_api_key(environ))
                       THEN LET r == Raise("OpenAIError", "OpenAI API key is required for summarization")
                            IN  Finish(c, r, summarize_response(r, q.session_id))
                       ELSE [c EXCEPT !.pc = "post",
                                      !.prompt = _build_system_prompt(q.question_type, q.language)]]
    /\ UNCHANGED ProcessVars
    /\ UNCHANGED <<RepoVars, EndpointVars>>

\* client.post(...) is sent (openai_client.py 91, whisper_client.py 64).
Post ==
    /\ \E i \in 1 .. MaxRequests :
         /\ requests[i].pc = "post"
         /\ requests' = [requests EXCEPT ![i].pc = "awaiting",
                                         ![i].posts = @ + 1]
    /\ UNCHANGED ProcessVars
    /\ UNCHANGED <<RepoVars, EndpointVars>>

\* The transcription call ends; whisper_client.py 72-89, transcribe.py 43-50.
\* The finally clause unlinks the staged file.  Nothing closes the handle
\* opened at line 59: it is released only if the garbage collector has already
\* finalised the file object when the call ends.
TranscribeReply ==
    /\ \E i \in 1 .. MaxRequests, o \in TranscribeReplies, collected \in BOOLEAN :
         LET q == requests[i] IN
         /\ q.kind = "transcribe" /\ q.pc = "awaiting"
         /\ requests' = [requests EXCEPT ![i] =
              IF transcribe_next(o) = "post"
              THEN [q EXCEPT !.pc = "post"]
              ELSE Finish([q EXCEPT !.temp_file = "deleted",
                                    !.handle = IF collected THEN "closed" ELSE "open"],
                          transcribe_try(o),
                          transcribe_response(transcribe_try(o), q.session_id))]
    /\ UNCHANGED ProcessVars
    /\ UNCHANGED <<RepoVars, EndpointVars>>

\* result = json.loads(content) (openai_client.py 100-104): the object the
\* reply carries, when the reply is a 200 whose content parses to an object.
parsed_content(o) ==
    IF o.t = "response" /\ o.status = 200 /\ o.body.b = "chat"
       /\ o.body.content.c = "object"
    THEN o.body.content
    ELSE NotParsed

\* The summarization call ends; openai_client.py 98-126, summarize.py 49-54.
\* parsed keeps the object json.loads produced, if the call got that far.
SummarizeReply ==
    /\ \E i \in 1 .. MaxRequests, o \in SummarizeReplies :
         LET q == requests[i] IN
         /\ q.kind = "summarize" /\ q.pc = "awaiting"
         /\ requests' = [requests EXCEPT ![i] =
              IF summarize_next(o) = "post"
              THEN [q EXCEPT !.pc = "post"]
              ELSE LET r == summarize_except(summarize_try(o))
                   IN  Finish([q EXCEPT !.parsed = parsed_content(o)], r,
                              summarize_response(r, q.session_id))]
    /\ UNCHANGED ProcessVars
    /\ UNCHANGED <<RepoVars, EndpointVars>>

-----------------------------------------------------------------------------
(* TranscriptionRepository.create (repositories/transcription_repository.py *)
(* 18-23) on the transcriptions table (models/transcription.py 12-17).     *)

\* Transcription.id of an object that has not been inserted (Python's None).
NoId == 0

NoObject == [id |-> NoId, question_id |-> 0, text |-> None]

NoCall == [pc |-> "idle", question_id |-> 0, text |-> None, obj |-> NoObject,
           returned |-> NoObject, raised |-> "none"]

\* The arguments create is called with; a None text violates nullable=False.
QuestionIds == {7, 8}
Texts == {"hello", None}

\* A faulty variant: an existing row with the same inputs is handed back.
new_transcription_get_or_create(question_id, text, rows) ==
    IF \E j \in 1 .. Len(rows) : rows[j].question_id = question_id /\ rows[j].text = text
    THEN rows[CHOOSE j \in 1 .. Len(rows) :
                  rows[j].question_id = question_id /\ rows[j].text = text]
    ELSE [id |-> NoId, question_id |-> question_id, text |-> text]

\* transcription_repository.py 19: a new object, whatever the table holds;
\* its id is unset until the INSERT.
new_transcription(question_id, text, rows) ==
    [id |-> NoId, question_id |-> question_id, text |-> text]

\* transcription_repository.py 18-20: create is called and the new object is
\* added to the session.
CreateCall ==
    /\ num_creates < MaxCreates
    /\ \E s \in 1 .. MaxSessions, question_id \in QuestionIds, text \in Texts :
         /\ creates[s].pc \in {"idle", "returned", "raised"}
         /\ creates' = [creates EXCEPT ![s] =
              [NoCall EXCEPT !.pc = "added", !.question_id = question_id,
                             !.text = text,
                             !.obj = new_transcription(question_id, text, table)]]
    /\ num_creates' = num_creates + 1
    /\ UNCHANGED <<table, id_seq>>
    /\ UNCHANGED <<ProcessVars, requests, EndpointVars>>

\* transcription_repository.py 21, first half: commit() flushes the session.
\* The INSERT draws the next identifier; it fails when the database is down
\* or the row violates NOT NULL, and the exception leaves create.  Whether a
\* rejected INSERT has consumed an identifier depends on the database.
CreateFlush ==
    /\ \E s \in 1 .. MaxSessions, consumed \in BOOLEAN :
         LET c == creates[s] IN
         /\ c.pc = "added"
         /\ IF c.obj.id # NoId
            THEN /\ creates' = [creates EXCEPT ![s].pc = "flushed_nothing"]
                 /\ UNCHANGED id_seq
            ELSE IF ~db_up
            THEN /\ creates' = [creates EXCEPT ![s].pc = "raised",
                                               ![s].raised = "OperationalError"]
                 /\ UNCHANGED id_seq
            ELSE IF c.obj.text = None
            THEN /\ creates' = [creates EXCEPT ![s].pc = "raised",
                                               ![s].raised = "IntegrityError"]
                 /\ id_seq' = IF consumed THEN id_seq + 1 ELSE id_seq
            ELSE /\ creates' = [creates EXCEPT ![s].pc = "flushed",
                                               ![s].obj.id = id_seq + 1]
                 /\ id_seq' = id_seq + 1
    /\ UNCHANGED <<table, num_creates>>
    /\ UNCHANGED <<ProcessVars, requests, EndpointVars>>

\* transcription_repository.py 21, second half: the transaction commits and
\* the inserted row becomes part of the table, or the commit fails, the
\* transaction is rolled back and the exception leaves create.
CreateCommit ==
    /\ \E s \in 1 .. MaxSessions :
         LET c == creates[s] IN
         /\ c.pc \in {"flushed", "flushed_nothing"}
         /\ IF ~db_up
            THEN /\ creates' = [creates EXCEPT ![s].pc = "raised",
                                               ![s].raised = "OperationalError"]
                 /\ UNCHANGED table
            ELSE /\ creates' = [creates EXCEPT ![s].pc = "committed"]
                 /\ table' = IF c.pc = "flushed" THEN Append(table, c.obj) ELSE table
    /\ UNCHANGED <<id_seq, num_creates>>
    /\ UNCHANGED <<ProcessVars, requests, EndpointVars>>

\* transcription_repository.py 22-23: the object is reloaded from its row and
\* returned; a failing reload leaves create with the exception.
CreateRefresh ==
    /\ \E s \in 1 .. MaxSessions :
         LET c == creates[s] IN
         /\ c.pc = "committed"
         /\ creates' = [creates EXCEPT ![s] =
              IF ~db_up
              THEN [c EXCEPT !.pc = "raised", !.raised = "OperationalError"]
              ELSE [c EXCEPT !.pc = "returned",
                             !.returned = table[CHOOSE j \in 1 .. Len(table) :
                                                   table[j].id = c.obj.id]]]
    /\ UNCHANGED <<table, id_seq, num_creates>>
    /\ UNCHANGED <<ProcessVars, requests, EndpointVars>>

-----------------------------------------------------------------------------
(* The get_db dependency (db/session.py 87-99) around the handlers that     *)
(* declare it: api/transcribe.py 17, api/summarize.py 28 and 61,            *)
(* api/health.py 33.                                                        *)

NoSession ==
    [handler |-> None, pc |-> "idle", log |-> <<>>, connection |-> FALSE,
     outcome |-> "pending", propagating |-> FALSE, response |-> "none"]

\* The handlers that declare Depends(get_db).
Dependants ==
    {"transcribe_audio_file", "summarize_response", "batch_summarize",
     "detailed_health_check"}

\* health.py 142: the only use any handler makes of its session.
uses_session(handler) == handler = "detailed_health_check"

\* transcribe.py 27, 50 and summarize.py 54, 89 raise HTTPException;
\* detailed_health_check catches whatever its checks raise (health.py 152,
\* 198, 214) and always returns.
may_raise(handler) == handler # "detailed_health_check"

\* session.py 91-93: a request arrives, get_db makes a Session and yields it to
\* the handler.
get_db_enter ==
    /\ pc = "serving"
    /\ \E i \in 1 .. MaxSessions, h \in Dependants :
         /\ db_sessions[i].pc \in {"idle", "closed"}
         /\ db_sessions' = [db_sessions EXCEPT ![i] =
              [NoSession EXCEPT !.handler = h, !.pc = "yielded",
                                !.log = <<"SessionLocal">>]]
    /\ UNCHANGED <<ProcessVars, requests, RepoVars, batch, detailed>>

\* The handler runs to its return.  db.execute (health.py 142) checks a
\* connection out of the pool when the database answers.
HandlerReturns ==
    /\ \E i \in 1 .. MaxSessions :
         /\ db_sessions[i].pc = "yielded"
         /\ db_sessions' = [db_sessions EXCEPT ![i] =
              [@ EXCEPT !.pc = "finally", !.outcome = "returned",
                        !.connection =
                            uses_session(db_sessions[i].handler) /\ db_up]]
    /\ UNCHANGED <<ProcessVars, requests, RepoVars, batch, detailed>>

\* The handler raises HTTPException, which is thrown into the generator at
\* its yield.
HandlerRaises ==
    /\ \E i \in 1 .. MaxSessions :
         /\ db_sessions[i].pc = "yielded"
         /\ may_raise(db_sessions[i].handler)
         /\ db_sessions' = [db_sessions EXCEPT ![i] =
              [@ EXCEPT !.pc = "except", !.outcome = "raised"]]
    /\ UNCHANGED <<ProcessVars, requests, RepoVars, batch, detailed>>

\* A faulty variant: the except clause swallows the exception.
get_db_except_swallow ==
    /\ \E i \in 1 .. MaxSessions :
         /\ db_sessions[i].pc = "except"
         /\ db_sessions' = [db_sessions EXCEPT ![i] =
              [@ EXCEPT !.pc = "finally", !.log = Append(@, "rollback"),
                        !.connection = FALSE]]
    /\ UNCHANGED <<ProcessVars, requests, RepoVars, batch, detailed>>

\* session.py 94-97: log, db.rollback(), raise.
get_db_except ==
    /\ \E i \in 1 .. MaxSessions :
         /\ db_sessions[i].pc = "except"
         /\ db_sessions' = [db_sessions EXCEPT ![i] =
              [@ EXCEPT !.pc = "finally", !.log = Append(@, "rollback"),
                        !.connection = FALSE, !.propagating = TRUE]]
    /\ UNCHANGED <<ProcessVars, requests, RepoVars, batch, detailed>>

\* session.py 98-99: db.close(), then the exception in flight, if any, leaves
\* the generator and the request ends.
get_db_finally ==
    /\ \E i \in 1 .. MaxSessions :
         /\ db_sessions[i].pc = "finally"
         /\ db_sessions' = [db_sessions EXCEPT ![i] =
              [@ EXCEPT !.pc = "closed", !.log = Append(@, "close"),
                        !.connection = FALSE,
                        !.response = IF db_sessions[i].propagating
                                     THEN "raised" ELSE "returned"]]
    /\ UNCHANGED <<ProcessVars, requests, RepoVars, batch, detailed>>

-----------------------------------------------------------------------------
(* batch_summarize (api/summarize.py 57-91).                                *)

NoBatch ==
    [pc |-> "idle", responses |-> <<>>, language |-> None, calls |-> <<>>,
     results |-> <<>>, status |-> 0, body |-> NoBody]

\* The bodies posted: ordered lists of SummarizeRequest.
BatchLists == UNION {[1 .. n -> SummarizeInputs] : n \in 0 .. MaxBatch}

\* The values of the language query parameter.
BatchLanguages == {None, "", "de"}

\* A faulty variant: an item that names a language keeps it.
effective_language_item_first(language, item_language) ==
    IF ~falsy(item_language) THEN item_language ELSE language

\* summarize.py 68-69: `if language: response.language = language`.
effective_language(language, item_language) ==
    IF ~falsy(language) THEN language ELSE item_language

\* summarize.py 71-76: the arguments of the summarize_text call for an item.
batch_call(item, language) ==
    [text |-> item.text, question |-> item.question,
     question_type |-> item.question_type,
     language |-> effective_language(language, item.language),
     outcome |-> Pending]

\* summarize.py 78-84: the entry appended to results.
batch_result(r, item) ==
    [summary |-> r.summary, analysis |-> r.analysis,
     question_id |-> item.session_id]

\* What follows the outcome r of the summarize_text call for the current
\* item: the next iteration, or the except clause (summarize.py 88-91).
batch_after(b, r) ==
    LET k == Len(b.calls)
        c == [b EXCEPT !.calls[k].outcome = r]
    IN  IF r.raised = "none"
        THEN [c EXCEPT !.pc = "loop",
                       !.results = Append(@, batch_result(r, b.responses[k]))]
        ELSE [c EXCEPT !.pc = "done", !.status = 500,
                       !.body = [detail |-> "Batch summarization failed: " \o r.message]]

\* A client posts a list of requests, with or without the language parameter.
AcceptBatch ==
    /\ pc = "serving"
    /\ batch.pc = "idle"
    /\ \E l \in BatchLists, lang \in BatchLanguages :
         batch' = [NoBatch EXCEPT !.pc = "loop", !.responses = l,
                                  !.language = lang]
    /\ UNCHANGED <<ProcessVars, requests, RepoVars, db_sessions, detailed>>

\* One evaluation of `for response in responses` (summarize.py 66-76) up to
\* the outbound call of summarize_text (openai_client.py 46-57), or the
\* return after the last item (summarize.py 86).
BatchLoop ==
    /\ batch.pc = "loop"
    /\ IF Len(batch.calls) = Len(batch.responses)
       THEN batch' = [batch EXCEPT !.pc = "done", !.status = 200,
                                   !.body = [results |-> batch.results]]
       ELSE LET item == batch.responses[Len(batch.calls) + 1]
                call == batch_call(item, batch.language)
                b == [batch EXCEPT !.calls = Append(@, call)]
            IN  batch' =
                  IF use_mock_summarization(environ)
                  THEN batch_after(b, mock_summarization(call.text, call.question,
                                                         call.question_type, call.language))
                  ELSE IF falsy(openai_api_key(environ))
                       THEN batch_after(b, Raise("OpenAIError",
                                "OpenAI API key is required for summarization"))
                       ELSE [b EXCEPT !.pc = "awaiting"]
    /\ UNCHANGED <<ProcessVars, requests, RepoVars, db_sessions, detailed>>

\* The outbound call of the current item ends (openai_client.py 87-126).
BatchReply ==
    /\ batch.pc = "awaiting"
    /\ \E o \in SummarizeReplies :
         batch' = batch_after(batch, summarize_except(summarize_try(o)))
    /\ UNCHANGED <<ProcessVars, requests, RepoVars, db_sessions, detailed>>

-----------------------------------------------------------------------------
(* detailed_health_check (api/health.py 32-75, 138-215).                    *)

NoDetailed ==
    [pc |-> "idle", database |-> "pending", openai_api |-> "pending",
     configuration |-> "pending", reply |-> "none", status |-> "pending",
     status_code |-> 0]

\* What the GET https://api.openai.com/v1/models of the check can end in.
ModelsReplies ==
    {[t |-> "timeout"], [t |-> "connect_error"],
     [t |-> "response", status |-> 200],
     [t |-> "response", status |-> 401],
     [t |-> "response", status |-> 500]}

\* Whether int(s) returns rather than raising ValueError.
is_decimal(s) == \E n \in DecimalInts : ToString(n) = s

\* health.py 138-157: SELECT 1 on the request's session.
_check_database_health(up) == IF up THEN "healthy" ELSE "unhealthy"

\* health.py 160-176: the part of the check before any outbound call.
_check_openai_health(e) ==
    IF use_mock_transcription(e) /\ use_mock_summarization(e) THEN "mock_mode"
    ELSE IF falsy(openai_api_key(e)) THEN "degraded"
    ELSE "call"

\* health.py 178-199: the status for the outcome of the outbound call.
openai_status(o) ==
    IF o.t = "response" /\ o.status = 200 THEN "healthy" ELSE "degraded"

\* health.py 202-215: the two integer properties are read inside the try.
_check_configuration_health(e) ==
    IF /\ is_decimal(getenv(e, "MAX_AUDIO_FILE_SIZE_MB", "25"))
       /\ is_decimal(getenv(e, "RATE_LIMIT_PER_MINUTE", "60"))
    THEN "healthy" ELSE "unhealthy"

\* A faulty variant: degraded is looked for first.
overall_status_degraded_first(component_statuses) ==
    IF "degraded" \in component_statuses THEN "degraded"
    ELSE IF "unhealthy" \in component_statuses THEN "unhealthy"
    ELSE "healthy"

\* health.py 57-61.
overall_status(component_statuses) ==
    IF "unhealthy" \in component_statuses THEN "unhealthy"
    ELSE IF "degraded" \in component_statuses THEN "degraded"
    ELSE "healthy"

\* health.py 69-73.
status_code(status) == IF status = "unhealthy" THEN 503 ELSE 200

\* health.py 52-75, once the first two components are known.
detailed_finish(d, e) ==
    LET c == _check_configuration_health(e)
        overall == overall_status({d.database, d.openai_api, c})
    IN  [d EXCEPT !.pc = "done", !.configuration = c, !.status = overall,
                  !.status_code = status_code(overall)]

\* GET /api/health/detailed up to the outbound call of the OpenAI check, or
\* to the response when that check makes none.
DetailedHealthCheck ==
    /\ pc = "serving"
    /\ detailed.pc \in {"idle", "done"}
    /\ LET o == _check_openai_health(environ)
           d == [NoDetailed EXCEPT !.database = _check_database_health(db_up)]
       IN  detailed' = IF o = "call"
                       THEN [d EXCEPT !.pc = "awaiting"]
                       ELSE detailed_finish([d EXCEPT !.openai_api = o], environ)
    /\ UNCHANGED <<ProcessVars, requests, RepoVars, db_sessions, batch>>

\* The outbound call ends; the rest of the handler runs to the response.
DetailedHealthReply ==
    /\ detailed.pc = "awaiting"
    /\ \E o \in ModelsReplies :
         detailed' = detailed_finish(
             [detailed EXCEPT !.openai_api = openai_status(o), !.reply = o.t],
             environ)
    /\ UNCHANGED <<ProcessVars, requests, RepoVars, db_sessions, batch>>

\* A limit is overwritten in os.environ while the application runs; the
\* Config properties read the environment anew at each access (config.py
\* 77-79), so int() meets a value the validator never saw.
SetLimitEnviron ==
    /\ pc = "serving"
    /\ environ["MAX_AUDIO_FILE_SIZE_MB"] # "25MB"
    /\ environ' = [environ EXCEPT !["MAX_AUDIO_FILE_SIZE_MB"] = "25MB"]
    /\ UNCHANGED <<pc, config, config_errors, config_warnings, USE_MOCK,
                   OPENAI_API_KEY, db_up, max_retries, retry_delay, attempt,
                   gate_log, gate_result, SessionLocal, requests>>
    /\ UNCHANGED <<gate_calls, lifespan_log>>
    /\ UNCHANGED <<RepoVars, EndpointVars>>

-----------------------------------------------------------------------------
(* Specifications.                                                         *)

Unset == [k \in EnvKeys |-> None]

\* Environments the application is started in.
AppEnvirons ==
    {[Unset EXCEPT !["OPENAI_API_KEY"] = key,
                   !["USE_MOCK_TRANSCRIPTION"] = mt,
                   !["USE_MOCK_SUMMARIZATION"] = ms,
                   !["ENVIRONMENT"] = en,
                   !["DATABASE_CONNECTION_RETRIES"] = "2"] :
        key \in {None, PLACEHOLDER_KEY, "sk-live"},
        mt \in {None, "True"}, ms \in {None, "true"},
        en \in {None, "production"}}

\* Environments the startup gate is run in.
StartupEnvirons ==
    {[Unset EXCEPT !["OPENAI_API_KEY"] = key,
                   !["ENVIRONMENT"] = en,
                   !["DATABASE_CONNECTION_RETRIES"] = ToString(n),
                   !["DATABASE_RETRY_DELAY_SECONDS"] = d] :
        key \in {None, "sk-live"}, en \in {None, "production"},
        n \in 1 .. MaxEnvRetries, d \in {None, "1"}}

\* Environments the Configuration is constructed in.
ConfigEnvirons ==
    {[Unset EXCEPT !["DATABASE_URL"] = url,
                   !["OPENAI_API_KEY"] = key,
                   !["USE_MOCK_TRANSCRIPTION"] = mt,
                   !["USE_MOCK_SUMMARIZATION"] = ms,
                   !["ENVIRONMENT"] = en,
                   !["MAX_AUDIO_FILE_SIZE_MB"] = size,
                   !["MAX_AUDIO_DURATION_SECONDS"] = dur,
                   !["RATE_LIMIT_PER_MINUTE"] = rate,
                   !["DATABASE_CONNECTION_RETRIES"] = n,
                   !["DATABASE_RETRY_DELAY_SECONDS"] = d] :
        url \in {None, ""},
        key \in {None, "", PLACEHOLDER_KEY, "sk-live"},
        mt \in {None, "True", "false"}, ms \in {None, "true", "False"},
        en \in {None, "production", "staging"},
        size \in {None, "0"}, dur \in {None, "-1"}, rate \in {None, "0"},
        n \in {None, "0", ToString(MaxEnvRetries)}, d \in {None, "0"}}

InitProcess ==
    /\ pc = "import_whisper_client"
    /\ config = "absent"
    /\ config_errors = <<>>
    /\ config_warnings = <<>>
    /\ USE_MOCK = FALSE
    /\ OPENAI_API_KEY = None
    /\ db_up \in BOOLEAN
    /\ max_retries = 0
    /\ retry_delay = 0
    /\ attempt = 0
    /\ gate_log = <<>>
    /\ gate_result = "pending"
    /\ SessionLocal = FALSE
    /\ gate_calls = 0
    /\ lifespan_log = <<>>
    /\ requests = [i \in 1 .. MaxRequests |-> Idle]
    /\ table = <<>>
    /\ id_seq = 0
    /\ creates = [s \in 1 .. MaxSessions |-> NoCall]
    /\ num_creates = 0
    /\ db_sessions = [i \in 1 .. MaxSessions |-> NoSession]
    /\ batch = NoBatch
    /\ detailed = NoDetailed

Init == environ \in AppEnvirons /\ InitProcess

Next ==
    \/ ImportWhisperClient
    \/ ImportConfig
    \/ EnterGate
    \/ GateProbe
    \/ GateSleep
    \/ CreateSessionLocal
    \/ Lifespan
    \/ DbChange
    \/ SetEnviron
    \/ AcceptTranscribe
    \/ AcceptSummarize
    \/ TranscribeCall
    \/ SummarizeCall
    \/ Post
    \/ TranscribeReply
    \/ SummarizeReply
    \/ Health
    \/ Root

Spec == Init /\ [][Next]_vars

\* Import and startup alone, over the retry settings.
InitStartup == environ \in StartupEnvirons /\ InitProcess

NextStartup ==
    \/ ImportWhisperClient
    \/ ImportConfig
    \/ EnterGate
    \/ GateProbe
    \/ GateSleep
    \/ CreateSessionLocal
    \/ Lifespan
    \/ DbChange

SpecStartup == InitStartup /\ [][NextStartup]_vars

\* The repository alone: sessions that call create while the database comes
\* and goes.
InitRepository == environ = Unset /\ InitProcess

NextRepository ==
    \/ CreateCall
    \/ CreateFlush
    \/ CreateCommit
    \/ CreateRefresh
    \/ DbChange

SpecRepository == InitRepository /\ [][NextRepository]_vars

\* The life of the process from its start to the first answers: import,
\* startup over the retry settings, and the two handlers that need nothing.
InitLifecycle == environ \in StartupEnvirons /\ InitProcess

NextLifecycle ==
    \/ ImportWhisperClient
    \/ ImportConfig
    \/ EnterGate
    \/ GateProbe
    \/ GateSleep
    \/ CreateSessionLocal
    \/ Lifespan
    \/ DbChange
    \/ Health
    \/ Root

SpecLifecycle == InitLifecycle /\ [][NextLifecycle]_vars

\* wait_for_database alone, called with arguments of the caller's choice while
\* the database comes and goes.
InitGate ==
    /\ environ = Unset
    /\ pc = "call_wait_for_database"
    /\ config = "absent"
    /\ config_errors = <<>>
    /\ config_warnings = <<>>
    /\ USE_MOCK = FALSE
    /\ OPENAI_API_KEY = None
    /\ db_up \in BOOLEAN
    /\ max_retries = 0
    /\ retry_delay = 0
    /\ attempt = 0
    /\ gate_log = <<>>
    /\ gate_result = "pending"
    /\ SessionLocal = FALSE
    /\ gate_calls = 0
    /\ lifespan_log = <<>>
    /\ requests = [i \in 1 .. MaxRequests |-> Idle]
    /\ table = <<>>
    /\ id_seq = 0
    /\ creates = [s \in 1 .. MaxSessions |-> NoCall]
    /\ num_creates = 0
    /\ db_sessions = [i \in 1 .. MaxSessions |-> NoSession]
    /\ batch = NoBatch
    /\ detailed = NoDetailed

NextGate ==
    \/ CallWaitForDatabase
    \/ GateProbe
    \/ GateSleep
    \/ DbChange

SpecGate == InitGate /\ [][NextGate]_vars

\* Environments a development application is started in: with a real key, or
\* with none, which makes the validator fall back to mock mode.
ServingEnvirons ==
    {[Unset EXCEPT !["OPENAI_API_KEY"] = "sk-live"], Unset}

\* The process once the application serves requests: the state the import
\* and startup actions lead to from a ServingEnviron when the first probe of
\* the gate succeeds.
InitServing ==
    /\ \E e \in ServingEnvirons :
         /\ environ = _validate_configuration(e).environ
         /\ config_warnings = _validate_configuration(e).warnings
         /\ OPENAI_API_KEY = e["OPENAI_API_KEY"]
    /\ pc = "serving"
    /\ config = "valid"
    /\ config_errors = <<>>
    /\ USE_MOCK = FALSE
    /\ db_up \in BOOLEAN
    /\ max_retries = database_connection_retries(environ)
    /\ retry_delay = database_retry_delay_seconds(environ)
    /\ attempt = 0
    /\ gate_log = <<probe(TRUE)>>
    /\ gate_result = "returned"
    /\ SessionLocal = TRUE
    /\ gate_calls = 1
    /\ lifespan_log = <<"probe">> \o (IF openai_check_due(environ)
                                     THEN <<"openai_check">> ELSE <<>>)
    /\ requests = [i \in 1 .. MaxRequests |-> Idle]
    /\ table = <<>>
    /\ id_seq = 0
    /\ creates = [s \in 1 .. MaxSessions |-> NoCall]
    /\ num_creates = 0
    /\ db_sessions = [i \in 1 .. MaxSessions |-> NoSession]
    /\ batch = NoBatch
    /\ detailed = NoDetailed

\* The requests that depend on get_db, running concurrently on a started
\* application.
NextDependants ==
    \/ get_db_enter
    \/ HandlerReturns
    \/ HandlerRaises
    \/ get_db_except
    \/ get_db_finally
    \/ DbChange

SpecDependants == InitServing /\ [][NextDependants]_vars

\* One batch request on a started application.
NextBatch ==
    \/ AcceptBatch
    \/ BatchLoop
    \/ BatchReply

SpecBatch == InitServing /\ [][NextBatch]_vars

\* Detailed health checks on a started application whose database, provider
\* and environment change underneath it.
NextHealth ==
    \/ DetailedHealthCheck
    \/ DetailedHealthReply
    \/ DbChange
    \/ SetEnviron
    \/ SetLimitEnviron

SpecHealth == InitServing /\ [][NextHealth]_vars

\* Construction of the Configuration alone, over every combination of settings.
InitConfig == environ \in ConfigEnvirons /\ InitProcess

NextConfig ==
    \/ ImportWhisperClient
    \/ ImportConfig

SpecConfig == InitConfig /\ [][NextConfig]_vars

-----------------------------------------------------------------------------
(* Properties.                                                             *)

\* The key is absent (unset or empty) or the known placeholder.
KeyAbsentOrPlaceholder(e) ==
    falsy(openai_api_key(e)) \/ openai_api_key(e) = PLACEHOLDER_KEY

\* At least one of the two mock flags reads false.
SomeMockFlagFalse(e) == ~use_mock_transcription(e) \/ ~use_mock_summarization(e)

\* Every setting other than the key passes its check.
OtherSettingsValid(e) ==
    /\ database_url(e) # ""
    /\ max_audio_file_size_mb(e) > 0
    /\ max_audio_duration_seconds(e) > 0
    /\ rate_limit_per_minute(e) > 0
    /\ database_connection_retries(e) > 0
    /\ database_retry_delay_seconds(e) > 0

\* C1: constructing the Configuration with environment=production, a mock
\* flag false and the API key absent or the placeholder always raises
\* ConfigurationError; it never succeeds and leaves the mock variables (the
\* whole environment) as they were.
C1_ProductionKeyRequired ==
    [][(/\ pc = "import_config"
        /\ environment(environ) = "production"
        /\ SomeMockFlagFalse(environ)
        /\ KeyAbsentOrPlaceholder(environ))
       => (/\ config' = "ConfigurationError"
           /\ pc' = "crashed"
           /\ config_errors' # <<>>
           /\ environ' = environ)]_vars

C1_Witness ==
    /\ config = "ConfigurationError"
    /\ environment(environ) = "production"
    /\ openai_api_key(environ) = PLACEHOLDER_KEY
    /\ ~use_mock_summarization(environ)
    /\ config_errors = <<"Please set a real OPENAI_API_KEY in production">>

\* C2: constructing the Configuration outside production with a mock flag
\* false, the key absent or the placeholder and every other setting valid
\* succeeds, and afterwards both mock flags read true whatever they were.
C2_DevelopmentFallsBackToMock ==
    [][(/\ pc = "import_config"
        /\ environment(environ) # "production"
        /\ SomeMockFlagFalse(environ)
        /\ KeyAbsentOrPlaceholder(environ)
        /\ OtherSettingsValid(environ))
       => (/\ config' = "valid"
           /\ config_errors' = <<>>
           /\ use_mock_transcription(environ')
           /\ use_mock_summarization(environ'))]_vars

C2_Witness ==
    /\ config = "valid"
    /\ environment(environ) = "staging"
    /\ openai_api_key(environ) = PLACEHOLDER_KEY
    /\ config_warnings = <<"Using placeholder API key - falling back to mock mode">>
    /\ environ["USE_MOCK_TRANSCRIPTION"] = "true"
    /\ environ["USE_MOCK_SUMMARIZATION"] = "true"

\* C3: whenever the Configuration says transcription mock mode is enabled at
\* the time of the call, transcribe_audio returns the canned string with no
\* outbound request and no credential check.
C3_MockTranscriptionHonoured ==
    \A i \in 1 .. MaxRequests :
        (requests[i].kind = "transcribe" /\ requests[i].mock_at_call = "yes")
        => (/\ requests[i].pc = "done"
            /\ requests[i].posts = 0
            /\ requests[i].result = ReturnText(MOCK_TRANSCRIPTION))

\* C4: whenever summarization mock mode is enabled at the time of the call,
\* summarize_text sends nothing and returns the one canned summary and
\* analysis whatever the text, question, question type and language, and the
\* endpoint answers 200 with them.
C4_MockSummarizationFixed ==
    \A i \in 1 .. MaxRequests :
        (requests[i].kind = "summarize" /\ requests[i].mock_at_call = "yes")
        => (/\ requests[i].pc = "done"
            /\ requests[i].posts = 0
            /\ requests[i].result = ReturnSummary(MOCK_SUMMARY, MOCK_ANALYSIS)
            /\ requests[i].status = 200
            /\ requests[i].body = [summary |-> MOCK_SUMMARY,
                                   analysis |-> MOCK_ANALYSIS,
                                   question_id |-> requests[i].session_id])

C4_Witness ==
    /\ environ["USE_MOCK_SUMMARIZATION"] = "True"
    /\ config_warnings = <<>>
    /\ \E i \in 1 .. MaxRequests :
         /\ requests[i].kind = "summarize"
         /\ requests[i].question_type = "yes_no"
         /\ requests[i].mock_at_call = "yes"
         /\ requests[i].status = 200
         /\ requests[i].body.analysis = MOCK_ANALYSIS

\* C5: with USE_MOCK_TRANSCRIPTION set to "True" in the environment before
\* the upload is posted, POST /api/transcribe with an audio file answers 200
\* with success true and the mock transcription, whatever the bytes.
C5_MockTranscribeEndpoint ==
    [][\A i \in 1 .. MaxRequests :
        (/\ requests[i].kind = "transcribe"
         /\ requests[i].pc = "accepted"
         /\ is_audio(requests[i].content_type)
         /\ environ["USE_MOCK_TRANSCRIPTION"] = "True"
         /\ requests'[i] # requests[i])
        => (/\ requests'[i].pc = "done"
            /\ requests'[i].status = 200
            /\ requests'[i].body.success
            /\ requests'[i].body.transcription = MOCK_TRANSCRIPTION)]_vars

NumProbes == Cardinality({j \in 1 .. Len(gate_log) : gate_log[j].op = "probe"})
NumSleeps == Cardinality({j \in 1 .. Len(gate_log) : gate_log[j].op = "sleep"})

RECURSIVE SecondsSlept(_)
SecondsSlept(log) ==
    IF log = <<>> THEN 0 ELSE Head(log).seconds + SecondsSlept(Tail(log))

\* C6: when every probe fails, wait_for_database makes exactly max_retries
\* probes with a sleep between consecutive probes and none after the last,
\* then stops; the import goes on and the session factory is created.
C6_GateExhausted ==
    (/\ gate_result # "pending"
     /\ \A j \in 1 .. Len(gate_log) : ~gate_log[j].ok)
    => (/\ gate_result = "raised"
        /\ NumProbes = max_retries
        /\ Len(gate_log) = 2 * max_retries - 1
        /\ \A j \in 1 .. Len(gate_log) :
             gate_log[j].op = IF j % 2 = 1 THEN "probe" ELSE "sleep"
        /\ pc \in {"session_factory", "lifespan", "serving"}
        /\ (pc # "session_factory" => SessionLocal))

C6_Witness ==
    /\ gate_result = "raised"
    /\ max_retries = 3
    /\ NumProbes = 3
    /\ NumSleeps = 2
    /\ SessionLocal
    /\ pc = "serving"

\* C7: when the first N-1 probes fail and probe N succeeds (1 <= N <=
\* max_retries), wait_for_database returns after exactly N probes and N-1
\* sleeps of retry_delay each, and nothing follows the first success.
C7_GateReturnsOnFirstSuccess ==
    \A j \in 1 .. Len(gate_log) :
        gate_log[j].ok
        => (/\ j = Len(gate_log)
            /\ gate_result = "returned"
            /\ NumProbes >= 1 /\ NumProbes <= max_retries
            /\ j = 2 * NumProbes - 1
            /\ NumSleeps = NumProbes - 1
            /\ \A k \in 1 .. Len(gate_log) :
                 /\ gate_log[k].op = (IF k % 2 = 1 THEN "probe" ELSE "sleep")
                 /\ gate_log[k].op = "sleep" => gate_log[k].seconds = retry_delay
            /\ SecondsSlept(gate_log) = (NumProbes - 1) * retry_delay)

C7_Witness ==
    /\ gate_result = "returned"
    /\ NumProbes = 3
    /\ gate_log[5].ok
    /\ ~gate_log[1].ok /\ ~gate_log[3].ok
    /\ SecondsSlept(gate_log) = 4

\* C8: a call of summarize_text or transcribe_audio sends at most one request
\* to the provider, whatever the reply.
C8_SingleAttempt ==
    \A i \in 1 .. MaxRequests : requests[i].posts <= 1

C8_Witness ==
    \E i \in 1 .. MaxRequests :
        /\ requests[i].kind = "summarize"
        /\ requests[i].pc = "done"
        /\ requests[i].posts = 1
        /\ requests[i].result.message = "Request timed out"

\* C9: a failing non-mock summarize_text call raises OpenAIError and nothing
\* else, and returns neither a summary nor an analysis.
C9_SummarizeFailsWithOpenAIError ==
    \A i \in 1 .. MaxRequests :
        (/\ requests[i].kind = "summarize"
         /\ requests[i].pc = "done"
         /\ requests[i].mock_at_call = "no"
         /\ requests[i].result.raised # "none")
        => (/\ requests[i].result.raised = "OpenAIError"
            /\ requests[i].result.summary = None
            /\ requests[i].result.analysis = EmptyDict
            /\ requests[i].status = 500
            /\ DOMAIN requests[i].body = {"detail"})

C9_Witness ==
    \E i \in 1 .. MaxRequests :
        /\ requests[i].kind = "summarize"
        /\ requests[i].pc = "done"
        /\ requests[i].posts = 1
        /\ requests[i].result.raised = "OpenAIError"
        /\ requests[i].result.message = "Summarization failed: 'choices'"

\* C10: a failing non-mock transcribe_audio call raises TranscriptionError,
\* and the failure reaches the caller instead of a transcript.
C10_TranscribeFailsWithTranscriptionError ==
    \A i \in 1 .. MaxRequests :
        (/\ requests[i].kind = "transcribe"
         /\ requests[i].pc = "done"
         /\ requests[i].mock_at_call = "no"
         /\ requests[i].result.raised # "none")
        => (/\ requests[i].result.raised = "TranscriptionError"
            /\ requests[i].result.text = None
            /\ requests[i].status = 500)

\* C11: a non-mock summarize_text call that returns gives back exactly the
\* summary and analysis fields of the JSON object the provider sent, "" for a
\* missing summary and the empty mapping for a missing analysis, with no field
\* of the analysis added, dropped or changed; and it does return for every
\* such object whose summary is a string or missing.
C11_SummaryAndAnalysisPassThrough ==
    \A i \in 1 .. MaxRequests :
        LET q == requests[i] IN
        (q.kind = "summarize" /\ q.pc = "done" /\ q.mock_at_call = "no")
        => /\ q.result.raised = "none" =>
                /\ q.parsed.c = "object"
                /\ LET f == q.parsed.fields IN
                     /\ q.result.summary = (IF "summary" \in DOMAIN f THEN f.summary ELSE "")
                     /\ q.result.analysis = (IF "analysis" \in DOMAIN f THEN f.analysis ELSE EmptyDict)
                     /\ q.body.summary = q.result.summary
                     /\ q.body.analysis = q.result.analysis
           /\ (/\ q.parsed.c = "object"
               /\ ("summary" \in DOMAIN q.parsed.fields => q.parsed.fields.summary # None))
              => q.result.raised = "none"

C11_Witness ==
    \E i \in 1 .. MaxRequests :
        /\ requests[i].kind = "summarize" /\ requests[i].pc = "done"
        /\ requests[i].mock_at_call = "no"
        /\ requests[i].text = "terrible sleep"
        /\ requests[i].question_type = "likert"
        /\ requests[i].result.summary = ""
        /\ requests[i].result.analysis.rating = 2
        /\ requests[i].result.analysis.sentiment = "negative"
        /\ requests[i].result.analysis = LikertAnalysis

\* C12: at no point of a transcribe_audio call, mock or not, does a file
\* holding the audio exist; the audio stays in memory.
C12_AudioNeverOnDisk ==
    \A i \in 1 .. MaxRequests :
        requests[i].kind = "transcribe" => requests[i].temp_file # "exists"

\* C13: once a transcribe_audio call that staged the audio in a temporary
\* file has ended, in whatever way, the staged file is gone and the handle
\* opened on it for the upload has been released.
C13_StagedFileCleanedUp ==
    \A i \in 1 .. MaxRequests :
        (requests[i].kind = "transcribe" /\ requests[i].pc = "done")
        => (/\ requests[i].temp_file \in {"none", "deleted"}
            /\ requests[i].handle \in {"none", "closed"})

\* The messages of the checks the environment e violates.
ViolatedChecks(e) ==
    (IF e["DATABASE_URL"] = "" THEN {"DATABASE_URL is required"} ELSE {})
    \cup (IF environment(e) = "production" /\ SomeMockFlagFalse(e) /\ falsy(e["OPENAI_API_KEY"])
          THEN {"OPENAI_API_KEY is required in production when mock mode is disabled"}
          ELSE {})
    \cup (IF environment(e) = "production" /\ SomeMockFlagFalse(e)
             /\ e["OPENAI_API_KEY"] = PLACEHOLDER_KEY
          THEN {"Please set a real OPENAI_API_KEY in production"} ELSE {})
    \cup (IF e["MAX_AUDIO_FILE_SIZE_MB"] \in {"0", "-1"}
          THEN {"MAX_AUDIO_FILE_SIZE_MB must be positive"} ELSE {})
    \cup (IF e["MAX_AUDIO_DURATION_SECONDS"] \in {"0", "-1"}
          THEN {"MAX_AUDIO_DURATION_SECONDS must be positive"} ELSE {})
    \cup (IF e["RATE_LIMIT_PER_MINUTE"] \in {"0", "-1"}
          THEN {"RATE_LIMIT_PER_MINUTE must be positive"} ELSE {})
    \cup (IF e["DATABASE_CONNECTION_RETRIES"] \in {"0", "-1"}
          THEN {"DATABASE_CONNECTION_RETRIES must be positive"} ELSE {})
    \cup (IF e["DATABASE_RETRY_DELAY_SECONDS"] \in {"0", "-1"}
          THEN {"DATABASE_RETRY_DELAY_SECONDS must be positive"} ELSE {})

\* C14: constructing the Configuration raises ConfigurationError exactly when
\* some check is violated, and the error then carries one message for each
\* violated check and no other: validation does not stop at the first.
C14_AllViolationsReported ==
    [][pc = "import_config"
       => (/\ (config' = "ConfigurationError") <=> (ViolatedChecks(environ) # {})
           /\ (config' = "valid") <=> (ViolatedChecks(environ) = {})
           /\ {config_errors'[j] : j \in 1 .. Len(config_errors')} = ViolatedChecks(environ)
           /\ Len(config_errors') = Cardinality(ViolatedChecks(environ)))]_vars

C14_Witness ==
    /\ config = "ConfigurationError"
    /\ config_errors =
         <<"DATABASE_URL is required",
           "OPENAI_API_KEY is required in production when mock mode is disabled",
           "MAX_AUDIO_FILE_SIZE_MB must be positive",
           "MAX_AUDIO_DURATION_SECONDS must be positive",
           "RATE_LIMIT_PER_MINUTE must be positive",
           "DATABASE_CONNECTION_RETRIES must be positive",
           "DATABASE_RETRY_DELAY_SECONDS must be positive">>

\* C15: in every state after the Configuration was constructed successfully,
\* either both mock flags read true or the API key is present, non-empty and
\* not the placeholder.
C15_MockOrRealKey ==
    config = "valid"
    => \/ use_mock_transcription(environ) /\ use_mock_summarization(environ)
       \/ /\ environ["OPENAI_API_KEY"] # None
          /\ environ["OPENAI_API_KEY"] # ""
          /\ environ["OPENAI_API_KEY"] # PLACEHOLDER_KEY

C15_Witness ==
    /\ config = "valid"
    /\ environ["OPENAI_API_KEY"] = ""
    /\ environ["ENVIRONMENT"] = "staging"
    /\ config_warnings = <<"OPENAI_API_KEY is missing - falling back to mock mode">>
    /\ environ["USE_MOCK_TRANSCRIPTION"] = "true"
    /\ environ["USE_MOCK_SUMMARIZATION"] = "true"

\* The identifiers of the rows of the table are set and pairwise distinct.
IdentifiersDistinct ==
    \A j, k \in 1 .. Len(table) :
        /\ table[j].id # NoId
        /\ (j # k => table[j].id # table[k].id)

\* What each finished create call handed to its caller.
CreateResults ==
    \A s \in 1 .. MaxSessions :
        LET c == creates[s] IN
        /\ c.pc = "returned" =>
             /\ c.returned.id # NoId
             /\ c.returned.question_id = c.question_id
             /\ c.returned.text = c.text
             /\ Cardinality({j \in 1 .. Len(table) : table[j] = c.returned}) = 1
             /\ \A t \in 1 .. MaxSessions :
                  (t # s /\ creates[t].pc = "returned")
                  => creates[t].returned.id # c.returned.id
        /\ c.pc # "returned" => c.returned = NoObject

\* A step that changes the table is the commit of one create call, and it
\* appends the one row of that call, with its identifier, to the rows that
\* were there.
OnlyCommitAddsOneRow ==
    table' # table
    => \E s \in 1 .. MaxSessions :
         /\ creates[s].pc \in {"flushed", "flushed_nothing"}
         /\ creates'[s].pc = "committed"
         /\ creates[s].obj.id # NoId
         /\ table' = Append(table, [id |-> creates[s].obj.id,
                                     question_id |-> creates[s].question_id,
                                     text |-> creates[s].text])

\* A create call whose commit succeeds adds a row: none is skipped because an
\* equal row exists.
EveryCommitAddsARow ==
    \A s \in 1 .. MaxSessions :
        (creates[s].pc \in {"flushed", "flushed_nothing"} /\ creates'[s].pc = "committed")
        => Len(table') = Len(table) + 1

\* C16: a successful create(question_id, text) adds exactly one row holding
\* that question_id and text under a generated identifier and leaves the
\* existing rows as they were; identifiers are pairwise distinct after any
\* sequence of calls, equal inputs included, and only a call whose commit
\* succeeded hands out an identifier.
C16_CreateAddsOneRow ==
    /\ [](IdentifiersDistinct /\ CreateResults)
    /\ [][OnlyCommitAddsOneRow /\ EveryCommitAddsARow]_vars

C16_Witness ==
    /\ Len(table) = 2
    /\ table[1].question_id = 7 /\ table[1].text = "hello"
    /\ table[2].question_id = 7 /\ table[2].text = "hello"
    /\ table[1].id # table[2].id
    /\ creates[1].pc = "returned" /\ creates[1].returned = table[2]
    /\ creates[2].pc = "raised"

\* C17: once configuration validation has raised ConfigurationError the
\* process is over: no step follows it, and no route handler (transcribe,
\* summarize, health, root) has run or ever runs.
C17_NoServingAfterConfigurationError ==
    config = "ConfigurationError"
    => (/\ pc = "crashed"
        /\ ~ENABLED Next
        /\ gate_calls = 0
        /\ ~SessionLocal
        /\ lifespan_log = <<>>
        /\ \A i \in 1 .. MaxRequests : requests[i] = Idle)

C17_Witness ==
    /\ config = "ConfigurationError"
    /\ pc = "crashed"
    /\ config_errors = <<"OPENAI_API_KEY is required in production when mock mode is disabled">>
    /\ ~SessionLocal

\* C18: GET /api/health answers 200 with a body equal to {"status":
\* "healthy"}, whatever the state of the database and of the provider.
C18_HealthBody ==
    \A i \in 1 .. MaxRequests :
        (requests[i].kind = "health" /\ requests[i].pc = "done")
        => (/\ requests[i].status = 200
            /\ requests[i].body = [status |-> "healthy"])

\* C19: after a startup whose gate exhausted its attempts, and with the
\* database still unreachable, an audio upload posted to /api/transcribe in
\* transcription mock mode is answered 200 with the mock transcription.
C19_MockTranscribeWithoutDatabase ==
    \A i \in 1 .. MaxRequests :
        (/\ requests[i].kind = "transcribe"
         /\ requests[i].pc = "done"
         /\ is_audio(requests[i].content_type)
         /\ requests[i].mock_at_call = "yes"
         /\ gate_result = "raised"
         /\ ~db_up)
        => (/\ requests[i].status = 200
            /\ requests[i].body.success
            /\ requests[i].body.transcription = MOCK_TRANSCRIPTION)

\* The database probes wait_for_dependencies made.
LifespanProbes ==
    Cardinality({j \in 1 .. Len(lifespan_log) : lifespan_log[j] = "probe"})

\* C20: wait_for_database is entered once per process, after the
\* Configuration was validated, and is over before the first request is
\* accepted; only it sleeps or probes again: the dependency check of the
\* lifespan probes the database at most once and never sleeps.
C20_GateRunsOnce ==
    /\ [](/\ gate_calls <= 1
          /\ (gate_calls = 1 => config = "valid")
          /\ ((pc \in {"lifespan", "serving"} \/ \E i \in 1 .. MaxRequests : requests[i] # Idle)
               => (gate_calls = 1 /\ gate_result # "pending"))
          /\ LifespanProbes <= 1
          /\ (pc = "serving" => LifespanProbes = 1)
          /\ \A j \in 1 .. Len(lifespan_log) : lifespan_log[j] # "sleep")
    /\ [][gate_log' # gate_log
           => (/\ pc \in {"wait_for_database", "gate_sleep"}
               /\ \A i \in 1 .. MaxRequests : requests[i] = Idle)]_vars

C20_Witness ==
    /\ pc = "serving"
    /\ gate_calls = 1
    /\ gate_result = "raised"
    /\ NumProbes = 3 /\ NumSleeps = 2
    /\ lifespan_log = <<"probe", "openai_check">>
    /\ \E i \in 1 .. MaxRequests : requests[i].kind = "health" /\ requests[i].pc = "done"

BatchLanguageGiven == ~falsy(batch.language)

\* C22: a batch over n requests answers 200 with exactly n results, the k-th
\* made from the k-th request's call and carrying its session id, or answers
\* 500 with no results at all; items are called in list order and none after
\* the first that fails; a batch-level language (a non-empty value), when
\* given, is the language of every call, otherwise each item's own is.
C22_BatchAllOrNothing ==
    LET n == Len(batch.responses) IN
    /\ Len(batch.calls) <= n
    /\ \A k \in 1 .. Len(batch.calls) :
         /\ batch.calls[k].text = batch.responses[k].text
         /\ batch.calls[k].question = batch.responses[k].question
         /\ batch.calls[k].question_type = batch.responses[k].question_type
         /\ batch.calls[k].language =
                IF BatchLanguageGiven THEN batch.language
                ELSE batch.responses[k].language
         /\ k < Len(batch.calls) => batch.calls[k].outcome.raised = "none"
    /\ batch.pc = "done"
       => \/ /\ batch.status = 200
             /\ DOMAIN batch.body = {"results"}
             /\ Len(batch.body.results) = n
             /\ Len(batch.calls) = n
             /\ \A k \in 1 .. n :
                  batch.body.results[k] =
                      [summary |-> batch.calls[k].outcome.summary,
                       analysis |-> batch.calls[k].outcome.analysis,
                       question_id |-> batch.responses[k].session_id]
          \/ /\ batch.status = 500
             /\ DOMAIN batch.body = {"detail"}
             /\ Len(batch.calls) >= 1
             /\ batch.calls[Len(batch.calls)].outcome.raised = "OpenAIError"

C22_Witness ==
    /\ batch.pc = "done" /\ batch.status = 500
    /\ Len(batch.responses) = 2 /\ Len(batch.calls) = 2
    /\ batch.language = "de"
    /\ batch.responses[1].language = "en"
    /\ batch.calls[1].language = "de"
    /\ batch.results # <<>>

Components == {detailed.database, detailed.openai_api, detailed.configuration}

DetailedAggregation ==
    detailed.pc = "done"
    => /\ detailed.database \in {"healthy", "unhealthy"}
       /\ detailed.openai_api \in {"healthy", "degraded", "mock_mode"}
       /\ detailed.configuration \in {"healthy", "unhealthy"}
       /\ detailed.status =
              IF "unhealthy" \in Components THEN "unhealthy"
              ELSE IF "degraded" \in Components THEN "degraded"
              ELSE "healthy"
       /\ detailed.status_code = 503 <=> detailed.status = "unhealthy"
       /\ detailed.status_code # 503 => detailed.status_code = 200
       /\ detailed.reply \in {"timeout", "connect_error"}
          => /\ detailed.openai_api = "degraded"
             /\ (detailed.database = "healthy" /\ detailed.configuration = "healthy")
                => (detailed.status = "degraded" /\ detailed.status_code = 200)

DatabaseDownIsUnhealthy ==
    (detailed.pc \in {"idle", "done"} /\ detailed'.pc \in {"awaiting", "done"}
     /\ detailed' # detailed /\ ~db_up)
    => /\ detailed'.database = "unhealthy"
       /\ detailed'.pc = "done"
          => (detailed'.status = "unhealthy" /\ detailed'.status_code = 503)

DatabaseVerdictKept ==
    detailed.pc = "awaiting" => detailed'.database = detailed.database

\* C23: the detailed health check answers unhealthy when a component is
\* unhealthy, else degraded when one is degraded, else healthy, mock_mode
\* counting as neither; the HTTP status is 503 exactly for unhealthy and 200
\* otherwise; a database that does not answer gives unhealthy / 503 and a
\* provider that cannot be reached gives no worse than degraded / 200.
C23_DetailedHealthAggregation ==
    /\ []DetailedAggregation
    /\ [][DatabaseDownIsUnhealthy /\ DatabaseVerdictKept]_vars

C23_Witness ==
    /\ detailed.pc = "done"
    /\ detailed.database = "unhealthy"
    /\ detailed.reply = "connect_error"
    /\ detailed.openai_api = "degraded"
    /\ detailed.status = "unhealthy" /\ detailed.status_code = 503

SessionOpen(i) ==
    /\ db_sessions[i].log # <<>>
    /\ \A j \in 1 .. Len(db_sessions[i].log) : db_sessions[i].log[j] # "close"

RequestInFlight(i) == db_sessions[i].pc \notin {"idle", "closed"}

NumCloses(i) ==
    Cardinality({j \in 1 .. Len(db_sessions[i].log) : db_sessions[i].log[j] = "close"})

\* C21: the session get_db opens for a request is closed exactly once when the
\* request ends; when the handler raised it is rolled back first and the
\* exception reaches the caller; a session is open only while its request is
\* in flight, however concurrent requests interleave.
C21_SessionClosedOnce ==
    \A i \in 1 .. MaxSessions :
        /\ NumCloses(i) <= 1
        /\ SessionOpen(i) <=> RequestInFlight(i)
        /\ db_sessions[i].pc = "closed"
           => /\ db_sessions[i].log =
                    IF db_sessions[i].outcome = "raised"
                    THEN <<"SessionLocal", "rollback", "close">>
                    ELSE <<"SessionLocal", "close">>
              /\ db_sessions[i].response = db_sessions[i].outcome
              /\ ~db_sessions[i].connection

C21_Witness ==
    /\ db_sessions[1].pc = "closed" /\ db_sessions[1].outcome = "raised"
    /\ db_sessions[1].log = <<"SessionLocal", "rollback", "close">>
    /\ db_sessions[2].pc = "finally" /\ db_sessions[2].outcome = "returned"
    /\ db_sessions[2].connection

\* C24: wait_for_database returns normally only if one of its connectivity
\* probes succeeded, whatever integer the caller passes for max_retries.
C24_ReturnsOnlyAfterSuccessfulProbe ==
    gate_result = "returned"
        => \E j \in 1 .. Len(gate_log) : gate_log[j].op = "probe" /\ gate_log[j].ok

\* C25: when constructing the Configuration fails with ConfigurationError, the
\* process environment is what it was before the construction.
C25_EnvironmentUnchangedOnConfigurationError ==
    [][(pc = "import_config" /\ config' = "ConfigurationError")
       => environ' = environ]_vars

====
